---- MODULE Spec2Model ----
(***************************************************************************)
(* Model of cli/standalone.rs: the trailer that marks a `deno compile`     *)
(* artifact, create_standalone_binary (composition of host image, bundle   *)
(* and trailer), try_run_standalone_binary (detection, extraction and the  *)
(* run of the embedded bundle) and EmbeddedModuleLoader.                   *)
(*                                                                         *)
(* Bytes are naturals 0..255, files and strings are sequences of bytes.    *)
(* A u64 is kept as its eight base-256 digits, least significant first     *)
(* (its layout in memory on the 64-bit little-endian targets the program   *)
(* is built for), so that 64-bit arithmetic is exact here.                 *)
(***************************************************************************)
EXTENDS Integers, Sequences, FiniteSets, TLC

VARIABLES
  windows,         \* cfg!(windows): the build's target platform
  overflowChecks,  \* the build's overflow-checks setting (on in debug builds)
  fs,              \* the file system: path -> entry
  pc,              \* position of the process
  exe,             \* current_exe(): path of the running executable
  image,           \* the bytes of the executable when the process started
  reads,           \* try_run_standalone_binary: the reads of the executable
  trailer_pos,     \* try_run_standalone_binary: position of the trailer
  trailer,         \* try_run_standalone_binary: the 16 bytes read at the end
  bundle_pos,      \* try_run_standalone_binary: the offset decoded
  bundle,          \* try_run_standalone_binary: the string read
  ret,             \* what try_run_standalone_binary returned to its caller
  exitCode,        \* the process's exit code
  stderr,          \* what the process printed to the diagnostic stream
  loader,          \* EmbeddedModuleLoader.0: the source the loader holds
  evaluated,       \* the code the engine evaluated as the main module
  pending,         \* tasks the engine's event loop still has to run
  events,          \* the steps of run() taken so far, in order
  failure,         \* where the process failed, and how (an error, a panic)
  call,            \* the call of create_standalone_binary this process made
  written,         \* path -> the host image and payload last composed into it
  lcall,           \* the last call of the loader (resolve or load)
  codec            \* a trailer being encoded and decoded

vars == <<windows, overflowChecks, fs, pc, exe, image, reads, trailer_pos,
          trailer, bundle_pos, bundle, ret, exitCode, stderr, loader,
          evaluated, pending, events, failure, call, written, lcall, codec>>

(***************************************************************************)
(* Bounds of the model.                                                    *)
(***************************************************************************)
MaxHostPad == 1      \* host images have 16 .. 16 + MaxHostPad bytes
MaxPayloadLen == 2   \* payloads have 0 .. MaxPayloadLen bytes
MaxPending == 1      \* tasks a module leaves to the event loop
MaxPartial == 1      \* bytes a failing write has written, at most

(***************************************************************************)
(* Program constants.                                                      *)
(***************************************************************************)
MAGIC_TRAILER == <<100, 51, 110, 48, 108, 52, 110, 100>>   \* b"d3n0l4nd"
SPECIFIER == "file://$deno$/bundle.js"
TrailerLen == 16
MagicLen == 8

None == [some |-> FALSE]
Some(v) == [some |-> TRUE, value |-> v]

(***************************************************************************)
(* Sequences of bytes.                                                     *)
(***************************************************************************)
Reverse(s) == [i \in 1..Len(s) |-> s[Len(s) + 1 - i]]
Min(a, b) == IF a < b THEN a ELSE b

RECURSIVE SeqsUpTo(_, _)
SeqsUpTo(S, n) ==
  IF n = 0 THEN {<<>>}
  ELSE LET shorter == SeqsUpTo(S, n - 1)
       IN shorter \cup {Append(s, b) : s \in {t \in shorter : Len(t) = n - 1}, b \in S}

(***************************************************************************)
(* u64: eight base-256 digits, least significant first.                    *)
(***************************************************************************)
U64Digits == 1..8

\* usize -> u64 of a length below 2^31 (a file's length here)
U64OfNat(n) ==
  [i \in U64Digits |->
     IF i = 1 THEN n % 256
     ELSE IF i = 2 THEN (n \div 256) % 256
     ELSE IF i = 3 THEN (n \div 65536) % 256
     ELSE IF i = 4 THEN (n \div 16777216) % 256
     ELSE 0]

\* the value, when it is below 2^24
U64IsSmall(x) == \A i \in 4..8 : x[i] = 0
U64ToNat(x) == x[1] + 256 * x[2] + 65536 * x[3]

\* a < b, compared from the most significant digit down
RECURSIVE U64LtFrom(_, _, _)
U64LtFrom(a, b, i) ==
  IF i = 0 THEN FALSE
  ELSE IF a[i] # b[i] THEN a[i] < b[i]
  ELSE U64LtFrom(a, b, i - 1)
U64Lt(a, b) == U64LtFrom(a, b, 8)

\* a - b modulo 2^64: digit by digit with a borrow
RECURSIVE U64Borrow(_, _, _)
U64Borrow(a, b, i) ==   \* the borrow into digit i
  IF i = 1 THEN 0
  ELSE IF a[i - 1] - b[i - 1] - U64Borrow(a, b, i - 1) < 0 THEN 1 ELSE 0
U64WrappingSub(a, b) ==
  [i \in U64Digits |-> (a[i] - b[i] - U64Borrow(a, b, i) + 256) % 256]

\* i64::MAX < x: the value does not fit a signed file offset
U64TopBit(x) == x[8] >= 128

\* u64::to_be_bytes / u64::from_be_bytes
ToBeBytes(x) == [i \in 1..8 |-> x[9 - i]]
FromBeBytes(b) == [i \in U64Digits |-> b[9 - i]]

(***************************************************************************)
(* The trailer: MAGIC_TRAILER then the big-endian offset.                  *)
(***************************************************************************)
\* create_standalone_binary: MAGIC_TRAILER.to_vec() then write_all(len.to_be_bytes())
EncodeTrailerLE(len) == MAGIC_TRAILER \o Reverse(ToBeBytes(len))
EncodeTrailer(len) == MAGIC_TRAILER \o ToBeBytes(len)

\* trailer.split_at(8)
MagicOf(t) == SubSeq(t, 1, MagicLen)
PosArrOf(t) == SubSeq(t, MagicLen + 1, TrailerLen)

\* try_run_standalone_binary: the offset when the magic matches, else nothing
DecodeTrailerUnchecked(t) == Some(FromBeBytes(PosArrOf(t)))
DecodeTrailerLoose(t) ==
  IF SubSeq(t, 1, 4) = SubSeq(MAGIC_TRAILER, 1, 4)
  THEN Some(FromBeBytes(PosArrOf(t))) ELSE None
DecodeTrailer(t) ==
  IF MagicOf(t) = MAGIC_TRAILER THEN Some(FromBeBytes(PosArrOf(t))) ELSE None

(***************************************************************************)
(* UTF-8, as String::from_utf8 accepts it (read_to_string).                *)
(***************************************************************************)
IsCont(b) == b >= 128 /\ b <= 191

RECURSIVE IsUtf8From(_, _)
IsUtf8From(s, i) ==
  IF i > Len(s) THEN TRUE
  ELSE LET b == s[i]
           has(k) == i + k <= Len(s)
       IN IF b < 128 THEN IsUtf8From(s, i + 1)
          ELSE IF b >= 194 /\ b <= 223
            THEN has(1) /\ IsCont(s[i + 1]) /\ IsUtf8From(s, i + 2)
          ELSE IF b >= 224 /\ b <= 239
            THEN /\ has(2)
                 /\ IsCont(s[i + 1]) /\ IsCont(s[i + 2])
                 /\ (b = 224 => s[i + 1] >= 160)
                 /\ (b = 237 => s[i + 1] <= 159)
                 /\ IsUtf8From(s, i + 3)
          ELSE IF b >= 240 /\ b <= 244
            THEN /\ has(3)
                 /\ IsCont(s[i + 1]) /\ IsCont(s[i + 2]) /\ IsCont(s[i + 3])
                 /\ (b = 240 => s[i + 1] >= 144)
                 /\ (b = 244 => s[i + 1] <= 143)
                 /\ IsUtf8From(s, i + 4)
          ELSE FALSE
IsUtf8(s) == IsUtf8From(s, 1)

(***************************************************************************)
(* The file system.  An entry is absent, a directory or a regular file     *)
(* with its bytes and whether its execute bits are set.                    *)
(***************************************************************************)
Paths == {"app", "app.exe"}

Absent == [kind |-> "absent", data |-> <<>>, exec |-> FALSE]
Dir == [kind |-> "dir", data |-> <<>>, exec |-> FALSE]
File(data, exec) == [kind |-> "file", data |-> data, exec |-> exec]

\* Path::exists, Path::is_dir
Exists(f, p) == f[p].kind # "absent"
IsDir(f, p) == f[p].kind = "dir"

\* Path::extension of the paths of the model
Extension(p) == IF p = "app.exe" THEN "exe" ELSE ""

\* create_standalone_binary: ".exe" is appended on Windows when it is missing
Normalize(w, output) ==
  IF w /\ Extension(output) # "exe" THEN output \o ".exe" ELSE output

\* File::open, seek(SeekFrom::End(-16)), read_exact of 16 bytes: the last 16
\* bytes of a file, or an I/O error when the file is shorter
ReadTrailerPadded(data) ==
  IF Len(data) < TrailerLen
  THEN Some([i \in 1..(TrailerLen - Len(data)) |-> 0] \o data)
  ELSE Some(SubSeq(data, Len(data) - TrailerLen + 1, Len(data)))
ReadTrailer(data) ==
  IF Len(data) < TrailerLen THEN None
  ELSE Some(SubSeq(data, Len(data) - TrailerLen + 1, Len(data)))

(***************************************************************************)
(* create_standalone_binary(source_code, output), run by the process       *)
(* whose executable is at path cur: the result and the file system after.  *)
(***************************************************************************)
FinalBinLateTrailer(original_bin, source_code) ==
  original_bin \o source_code \o EncodeTrailer(U64OfNat(0))
FinalBinEndOffset(original_bin, source_code) ==
  original_bin \o source_code
    \o EncodeTrailer(U64OfNat(Len(original_bin) + Len(source_code) + TrailerLen))
FinalBin(original_bin, source_code) ==
  original_bin \o source_code \o EncodeTrailer(U64OfNat(Len(original_bin)))

ComposeErr(f, kind) == [result |-> "Err", error |-> kind, fs |-> f]

\* tokio::fs::write then, on unix, set_permissions(0o777)
WriteOutputAppend(f, w, target, final_bin) ==
  LET old == IF f[target].kind = "file" THEN f[target].data ELSE <<>>
  IN [f EXCEPT ![target] = File(old \o final_bin, ~w)]
WriteOutput(f, w, target, final_bin) ==
  LET kept == IF f[target].kind = "file" THEN f[target].exec ELSE FALSE
      replaced == [f EXCEPT ![target] = File(final_bin, kept)]
  IN IF w THEN replaced
     ELSE [replaced EXCEPT ![target] = File(final_bin, TRUE)]

CreateStandaloneBinaryUnchecked(f, w, cur, source_code, output) ==
  LET target == Normalize(w, output)
      final_bin == FinalBin(f[cur].data, source_code)
  IN IF IsDir(f, target) THEN ComposeErr(f, "is_directory")
     ELSE [result |-> "Ok", error |-> "none",
           fs |-> WriteOutput(f, w, target, final_bin)]
CreateStandaloneBinaryNoDirCheck(f, w, cur, source_code, output) ==
  LET target == Normalize(w, output)
      final_bin == FinalBin(f[cur].data, source_code)
      t == ReadTrailer(f[target].data)
  IN IF Exists(f, target) /\ (IsDir(f, target) \/ ~t.some) THEN ComposeErr(f, "io")
     ELSE IF Exists(f, target) /\ MagicOf(t.value) # MAGIC_TRAILER
       THEN ComposeErr(f, "cannot_overwrite")
     ELSE [result |-> "Ok", error |-> "none",
           fs |-> WriteOutput(f, w, target, final_bin)]
CreateStandaloneBinaryWriteFirst(f, w, cur, source_code, output) ==
  LET target == Normalize(w, output)
      final_bin == FinalBin(f[cur].data, source_code)
      after == WriteOutput(f, w, target, final_bin)
      t == ReadTrailer(f[target].data)
  IN IF IsDir(f, target) THEN ComposeErr(f, "is_directory")
     ELSE IF Exists(f, target) /\ ~t.some THEN ComposeErr(after, "io")
     ELSE IF Exists(f, target) /\ MagicOf(t.value) # MAGIC_TRAILER
       THEN ComposeErr(after, "cannot_overwrite")
     ELSE [result |-> "Ok", error |-> "none", fs |-> after]
CreateStandaloneBinarySkipShort(f, w, cur, source_code, output) ==
  LET target == Normalize(w, output)
      final_bin == FinalBin(f[cur].data, source_code)
      t == ReadTrailer(f[target].data)
  IN IF IsDir(f, target) THEN ComposeErr(f, "is_directory")
     ELSE IF Exists(f, target) /\ t.some /\ MagicOf(t.value) # MAGIC_TRAILER
       THEN ComposeErr(f, "cannot_overwrite")
     ELSE [result |-> "Ok", error |-> "none",
           fs |-> WriteOutput(f, w, target, final_bin)]
CreateStandaloneBinary(f, w, cur, source_code, output) ==
  LET original_bin == f[cur].data
      final_bin == FinalBin(original_bin, source_code)
      target == Normalize(w, output)
      done == [result |-> "Ok", error |-> "none",
               fs |-> WriteOutput(f, w, target, final_bin)]
  IN IF Exists(f, target)
     THEN IF IsDir(f, target) THEN ComposeErr(f, "is_directory")
          ELSE LET t == ReadTrailer(f[target].data)
               IN IF ~t.some THEN ComposeErr(f, "io")
                  ELSE IF MagicOf(t.value) # MAGIC_TRAILER
                    THEN ComposeErr(f, "cannot_overwrite")
                  ELSE done
     ELSE done

(***************************************************************************)
(* create_standalone_binary when one of its I/O operations fails.  A fault *)
(* names the operation that fails: reading the running executable, opening *)
(* the existing target, seeking or reading in it, creating the output,     *)
(* writing it (write_all gives up after done bytes, the file having been   *)
(* truncated when it was opened) or setting its permissions.  A fault the  *)
(* call does not reach changes nothing.                                    *)
(***************************************************************************)
NoFault == [at |-> "none", done |-> 0]
FaultPoints == {"read_exe", "open", "seek", "read", "create", "write", "set_permissions"}
Faults ==
  {[at |-> a, done |-> 0] : a \in FaultPoints \ {"write"}}
    \cup {[at |-> "write", done |-> k] : k \in 0..MaxPartial}

\* tokio::fs::write failing after done bytes: the file was created or
\* truncated and holds that much of the image; its mode is as it was
WritePartly(f, target, final_bin, done) ==
  LET kept == IF f[target].kind = "file" THEN f[target].exec ELSE FALSE
  IN [f EXCEPT ![target] = File(SubSeq(final_bin, 1, done), kept)]

CreateStandaloneBinaryFaulting(f, w, cur, source_code, output, fault) ==
  LET final_bin == FinalBin(f[cur].data, source_code)
      target == Normalize(w, output)
      clean == CreateStandaloneBinary(f, w, cur, source_code, output)
      checked == Exists(f, target) /\ ~IsDir(f, target)
  IN IF fault.at = "read_exe" THEN ComposeErr(f, "io")
     ELSE IF fault.at \in {"open", "seek", "read"}
       THEN IF checked THEN ComposeErr(f, "io") ELSE clean
     ELSE IF clean.result # "Ok" THEN clean
     ELSE IF fault.at = "create" THEN ComposeErr(f, "io")
     ELSE IF fault.at = "write"
       THEN ComposeErr(WritePartly(f, target, final_bin, fault.done), "io")
     ELSE IF fault.at = "set_permissions" /\ ~w
       THEN ComposeErr(WritePartly(f, target, final_bin, Len(final_bin)), "io")
     ELSE clean

(***************************************************************************)
(* try_run_standalone_binary: detection and extraction.                    *)
(***************************************************************************)
\* seek(SeekFrom::Start(bundle_pos)) then take(bundle_len).read_to_string:
\* the bytes from bundle_pos on, bundle_len of them at most, to the end of
\* the file at most
ReadBundleToEnd(data, pos, len) ==
  IF ~U64IsSmall(pos) \/ U64ToNat(pos) >= Len(data) THEN <<>>
  ELSE SubSeq(data, U64ToNat(pos) + 1, Len(data))
ReadBundle(data, pos, len) ==
  IF ~U64IsSmall(pos) \/ U64ToNat(pos) >= Len(data) THEN <<>>
  ELSE LET start == U64ToNat(pos)
           avail == Len(data) - start
           n == IF U64IsSmall(len) THEN Min(U64ToNat(len), avail) ELSE avail
       IN SubSeq(data, start + 1, start + n)

(***************************************************************************)
(* EmbeddedModuleLoader.                                                   *)
(***************************************************************************)
Specifiers == {SPECIFIER, "", "./other.js", "https://example.com",
               "FILE://$deno$/bundle.js"}
Referrers == {SPECIFIER, "https://example.com/", "."}

Ok(v) == [ok |-> TRUE, value |-> v]
Err(e) == [ok |-> FALSE, error |-> e]

\* ModuleSpecifier::resolve_url: the URL parsed and serialised again (an
\* absolute URL is needed; the scheme is lower-cased, an empty path of a
\* special scheme becomes "/")
ResolveUrl(s) ==
  IF s = SPECIFIER \/ s = "FILE://$deno$/bundle.js" THEN Ok([url |-> SPECIFIER])
  ELSE IF s = "https://example.com" \/ s = "https://example.com/"
    THEN Ok([url |-> "https://example.com/"])
  ELSE Err("invalid_url")

ModuleSpecifiers == {ResolveUrl(s).value : s \in {t \in Specifiers : ResolveUrl(t).ok}}

\* ModuleSpecifier::to_string
SpecifierToString(m) == m.url

\* EmbeddedModuleLoader::resolve
ResolveByReferrer(held, specifier, referrer, is_main) ==
  IF specifier # SPECIFIER /\ ~(is_main /\ referrer = ".")
  THEN Err("module_loading_unsupported")
  ELSE ResolveUrl(SPECIFIER)
Resolve(held, specifier, referrer, is_main) ==
  IF specifier # SPECIFIER THEN Err("module_loading_unsupported")
  ELSE ResolveUrl(specifier)

\* EmbeddedModuleLoader::load
LoadAny(held, module_specifier, maybe_referrer, is_dynamic) ==
  Ok([code |-> held,
      module_url_specified |-> SpecifierToString(module_specifier),
      module_url_found |-> SpecifierToString(module_specifier)])
Load(held, module_specifier, maybe_referrer, is_dynamic) ==
  IF SpecifierToString(module_specifier) # SPECIFIER
  THEN Err("module_loading_unsupported")
  ELSE Ok([code |-> held,
           module_url_specified |-> SpecifierToString(module_specifier),
           module_url_found |-> SpecifierToString(module_specifier)])

(***************************************************************************)
(* The inputs of the model.                                                *)
(***************************************************************************)
PayloadBytes == {65, 195, 169}    \* "A", and the two bytes of U+00E9
Payloads == SeqsUpTo(PayloadBytes, MaxPayloadLen)
HostImage(n) == [i \in 1..n |-> 127]    \* n bytes that are no trailer
Hosts == {HostImage(TrailerLen + k) : k \in 0..MaxHostPad}

\* offsets a trailer can carry without the image being well formed
HugeOffset == [i \in U64Digits |-> IF i = 8 THEN 128 ELSE 0]
WideOffset == [i \in U64Digits |-> IF i = 5 THEN 1 ELSE 0]
CraftedOffsets == {U64OfNat(0), U64OfNat(TrailerLen + 2), U64OfNat(TrailerLen + 40),
                   WideOffset, HugeOffset}

\* the magic but for the case of its last letter: b"d3n0l4nD"
NearMagic == [i \in 1..MagicLen |-> IF i = MagicLen THEN 68 ELSE MAGIC_TRAILER[i]]

\* what a path holds before the first run: nothing, a directory, a file too
\* short for a trailer, a file that is no artifact, an artifact of an
\* earlier composition, a file that ends in the magic and an arbitrary offset
InitEntries ==
  {Absent, Dir, File(<<>>, FALSE), File(HostImage(TrailerLen - 1), TRUE)}
  \cup {File(h, TRUE) : h \in Hosts}
  \cup {File(FinalBin(HostImage(TrailerLen), p), TRUE) : p \in {<<65>>, <<195>>}}
  \cup {File(HostImage(TrailerLen) \o <<65>> \o EncodeTrailer(o), TRUE) :
          o \in CraftedOffsets}
  \cup {File(HostImage(TrailerLen) \o <<65>> \o NearMagic
              \o ToBeBytes(U64OfNat(TrailerLen)), TRUE)}

NoCall == [output |-> "", target |-> "", source_code |-> <<>>, host |-> <<>>,
           result |-> "none", error |-> "none", pre |-> <<>>,
           fault |-> [at |-> "none", done |-> 0]]
NoFailure == [at |-> "none", kind |-> "none"]
NoLoaderCall == [op |-> "none"]
NoCodec == [op |-> "none"]
NoPos == U64OfNat(0)

\* no process has run yet
NoProcess ==
  /\ pc = "idle"
  /\ exe = ""
  /\ image = <<>>
  /\ reads = <<>>
  /\ trailer_pos = NoPos
  /\ trailer = <<>>
  /\ bundle_pos = NoPos
  /\ bundle = <<>>
  /\ ret = "none"
  /\ exitCode = -1
  /\ stderr = <<>>
  /\ evaluated = None
  /\ pending = 0
  /\ events = <<>>
  /\ failure = NoFailure
  /\ call = NoCall
  /\ written = [p \in Paths |-> None]

Init ==
  /\ windows \in BOOLEAN
  /\ overflowChecks \in BOOLEAN
  /\ fs \in [Paths -> InitEntries]
  /\ NoProcess
  /\ loader = <<>>
  /\ lcall = NoLoaderCall
  /\ codec = NoCodec

envVars == <<windows, overflowChecks>>
runVars == <<loader, evaluated, pending, events>>
FailedAt(at, kind) == failure' = [at |-> at, kind |-> kind]
leafVars == <<lcall, codec>>

(***************************************************************************)
(* A process starts: any regular file may be the executable it runs.       *)
(***************************************************************************)
Start(p) ==
  /\ pc \in {"idle", "returned", "cli_done", "exited", "panicked"}
  /\ fs[p].kind = "file"
  /\ pc' = "detect"
  /\ exe' = p
  /\ image' = fs[p].data
  /\ reads' = <<>>
  /\ trailer_pos' = NoPos
  /\ trailer' = <<>>
  /\ bundle_pos' = NoPos
  /\ bundle' = <<>>
  /\ ret' = "none"
  /\ exitCode' = -1
  /\ stderr' = <<>>
  /\ loader' = <<>>
  /\ evaluated' = None
  /\ pending' = 0
  /\ events' = <<>>
  /\ failure' = NoFailure
  /\ call' = NoCall
  /\ UNCHANGED <<envVars, fs, written, leafVars>>

\* a read of the executable: count bytes from position from on
ReadAt(from, count) == [from |-> from, count |-> count]

\* try_run_standalone_binary returns r to its caller
Return(r) ==
  /\ ret' = r
  /\ pc' = "returned"

\* a panic ends the process with Rust's exit code for it
Panic ==
  /\ pc' = "panicked"
  /\ exitCode' = 101

(***************************************************************************)
(* try_run_standalone_binary, Detect: the last 16 bytes of the executable. *)
(***************************************************************************)
Detect ==
  /\ pc = "detect"
  /\ LET data == fs[exe].data
         t == ReadTrailer(data)
     IN IF ~t.some
        THEN /\ Return("Err")
             /\ FailedAt("Detect", "err")
             /\ UNCHANGED <<reads, trailer_pos, trailer, bundle_pos>>
        ELSE /\ trailer_pos' = U64OfNat(Len(data) - TrailerLen)
             /\ trailer' = t.value
             /\ reads' = <<ReadAt(U64OfNat(Len(data) - TrailerLen), TrailerLen)>>
             /\ UNCHANGED failure
             /\ LET d == DecodeTrailer(t.value)
                IN IF d.some
                   THEN /\ bundle_pos' = d.value
                        /\ pc' = "extract"
                        /\ ret' = ret
                   ELSE /\ Return("Ok")
                        /\ UNCHANGED bundle_pos
  /\ UNCHANGED <<envVars, fs, exe, image, bundle, exitCode, stderr, runVars, call,
                 written, leafVars>>

(***************************************************************************)
(* try_run_standalone_binary, Extract: seek to the offset and read the     *)
(* bundle as a string.                                                     *)
(***************************************************************************)
BundleLen(tp, pos) == U64WrappingSub(tp, pos)

Extract ==
  /\ pc = "extract"
  /\ IF U64TopBit(bundle_pos)
     THEN /\ Return("Err") /\ FailedAt("Extract", "err")
          /\ UNCHANGED <<reads, bundle, exitCode>>
     ELSE IF overflowChecks /\ U64Lt(trailer_pos, bundle_pos)
     THEN /\ Panic /\ FailedAt("Extract", "panic")
          /\ UNCHANGED <<reads, bundle, ret>>
     ELSE LET read == ReadBundle(fs[exe].data, bundle_pos,
                                 BundleLen(trailer_pos, bundle_pos))
          IN /\ reads' = Append(reads, ReadAt(bundle_pos, Len(read)))
             /\ IF IsUtf8(read)
                THEN /\ bundle' = read
                     /\ pc' = "configure"
                     /\ UNCHANGED <<ret, exitCode, failure>>
                ELSE /\ Return("Err") /\ FailedAt("Extract", "err")
                     /\ UNCHANGED <<bundle, exitCode>>
  /\ UNCHANGED <<envVars, fs, exe, image, trailer_pos, trailer, bundle_pos, stderr,
                 runVars, call, written, leafVars>>

(***************************************************************************)
(* run(source_code, args): the engine is configured, bootstrapped and      *)
(* driven.  What the script does is the engine's business: a step of the   *)
(* engine succeeds, fails with an error, or (where script code runs) asks  *)
(* for a web worker, which create_web_worker_cb answers with todo!().      *)
(***************************************************************************)
MainModule == ResolveUrl(SPECIFIER)
Outcomes == {"ok", "err", "worker"}

\* try_run_standalone_binary: run() returned Err: eprintln and exit(1)
FailExitZero(msg) ==
  /\ stderr' = <<"error", msg>>
  /\ exitCode' = 0
  /\ pc' = "exited"
Fail(msg) ==
  /\ stderr' = <<"error", msg>>
  /\ exitCode' = 1
  /\ pc' = "exited"

Step(name) == events' = Append(events, name)

tryVars == <<exe, image, reads, trailer_pos, trailer, bundle_pos, bundle, ret>>

\* args[1..] panics when the process was started without even a program
\* name; resolve_url(SPECIFIER)? may fail; the loader takes the bundle
ArgCounts == {0, 1, 2}

Configure ==
  /\ pc = "configure"
  /\ Step("Configure")
  /\ \E argc \in ArgCounts :
       IF argc < 1
       THEN Panic /\ FailedAt("Configure", "panic") /\ UNCHANGED <<loader, stderr>>
       ELSE IF MainModule.ok
       THEN /\ loader' = bundle
            /\ pc' = "bootstrap"
            /\ UNCHANGED <<exitCode, stderr, failure>>
       ELSE Fail(MainModule.error) /\ FailedAt("Configure", "err") /\ UNCHANGED loader
  /\ UNCHANGED <<envVars, fs, tryVars, evaluated, pending, call, written, leafVars>>

Bootstrap ==
  /\ pc = "bootstrap"
  /\ Step("Bootstrap")
  /\ pc' = "execute"
  /\ UNCHANGED <<envVars, fs, tryVars, exitCode, stderr, loader, evaluated,
                 pending, failure, call, written, leafVars>>

\* worker.execute_module(&main_module): the engine loads the main module
\* from the loader and evaluates it
ExecuteModule ==
  /\ pc = "execute"
  /\ Step("ExecuteModule")
  /\ LET source == Load(loader, MainModule.value, None, FALSE)
     IN IF ~source.ok
        THEN Fail(source.error) /\ FailedAt("ExecuteModule", "err")
             /\ UNCHANGED <<evaluated, pending>>
        ELSE /\ evaluated' = Some(source.value)
             /\ \E outcome \in Outcomes, n \in 0..MaxPending :
                  IF outcome = "ok"
                  THEN /\ pending' = n
                       /\ pc' = "load_event"
                       /\ UNCHANGED <<exitCode, stderr, failure>>
                  ELSE /\ n = 0
                       /\ FailedAt("ExecuteModule", IF outcome = "err" THEN "err" ELSE "panic")
                       /\ IF outcome = "err"
                          THEN Fail("uncaught") /\ UNCHANGED pending
                          ELSE Panic /\ UNCHANGED <<pending, stderr>>
  /\ UNCHANGED <<envVars, fs, tryVars, loader, call, written, leafVars>>

\* worker.execute("window.dispatchEvent(new Event('load'))")
DispatchLoadEvent ==
  /\ pc = "load_event"
  /\ Step("DispatchLoadEvent")
  /\ \E outcome \in Outcomes :
       IF outcome = "ok" THEN pc' = "event_loop" /\ UNCHANGED <<exitCode, stderr, failure>>
       ELSE IF outcome = "err" THEN Fail("uncaught") /\ FailedAt("DispatchLoadEvent", "err")
       ELSE Panic /\ FailedAt("DispatchLoadEvent", "panic") /\ UNCHANGED stderr
  /\ UNCHANGED <<envVars, fs, tryVars, loader, evaluated, pending, call, written, leafVars>>

\* worker.run_event_loop(): one pending task runs
RunEventLoopTask ==
  /\ pc = "event_loop"
  /\ pending > 0
  /\ \E outcome \in Outcomes :
       IF outcome = "ok"
       THEN /\ pending' = pending - 1
            /\ UNCHANGED <<pc, exitCode, stderr, events, failure>>
       ELSE /\ Step("RunEventLoop")
            /\ FailedAt("RunEventLoop", IF outcome = "err" THEN "err" ELSE "panic")
            /\ IF outcome = "err"
               THEN Fail("uncaught") /\ UNCHANGED pending
               ELSE Panic /\ UNCHANGED <<pending, stderr>>
  /\ UNCHANGED <<envVars, fs, tryVars, loader, evaluated, call, written, leafVars>>

\* worker.run_event_loop() returns once nothing is pending
RunEventLoopEarly ==
  /\ pc = "event_loop"
  /\ Step("RunEventLoop")
  /\ pc' = "unload_event"
  /\ UNCHANGED <<envVars, fs, tryVars, exitCode, stderr, loader, evaluated,
                 pending, failure, call, written, leafVars>>
RunEventLoopDone ==
  /\ pc = "event_loop"
  /\ pending = 0
  /\ Step("RunEventLoop")
  /\ pc' = "unload_event"
  /\ UNCHANGED <<envVars, fs, tryVars, exitCode, stderr, loader, evaluated,
                 pending, failure, call, written, leafVars>>

\* worker.execute("window.dispatchEvent(new Event('unload'))")
DispatchUnloadEvent ==
  /\ pc = "unload_event"
  /\ Step("DispatchUnloadEvent")
  /\ \E outcome \in Outcomes :
       IF outcome = "ok" THEN pc' = "exit_ok" /\ UNCHANGED <<exitCode, stderr, failure>>
       ELSE IF outcome = "err" THEN Fail("uncaught") /\ FailedAt("DispatchUnloadEvent", "err")
       ELSE Panic /\ FailedAt("DispatchUnloadEvent", "panic") /\ UNCHANGED stderr
  /\ UNCHANGED <<envVars, fs, tryVars, loader, evaluated, pending, call, written, leafVars>>

\* try_run_standalone_binary: run() returned Ok: exit(0)
ExitOk ==
  /\ pc = "exit_ok"
  /\ exitCode' = 0
  /\ pc' = "exited"
  /\ UNCHANGED <<envVars, fs, tryVars, stderr, runVars, failure, call, written, leafVars>>

(***************************************************************************)
(* The command line, which the process enters once                         *)
(* try_run_standalone_binary has returned Ok, compiles:                    *)
(* create_standalone_binary(source_code, output).  The length of the host  *)
(* image is a usize, eight bytes on the 64-bit targets modelled.           *)
(***************************************************************************)
Outputs == Paths

\* the caller of try_run_standalone_binary goes on to the command line when
\* the call returned Ok; an Err is a hard failure of the process
CommandLineEntered == pc = "returned" /\ ret = "Ok"

CliCompile(source_code, output) ==
  /\ CommandLineEntered
  /\ LET r == CreateStandaloneBinary(fs, windows, exe, source_code, output)
     IN /\ fs' = r.fs
        /\ call' = [output |-> output, target |-> Normalize(windows, output),
                    source_code |-> source_code, host |-> fs[exe].data,
                    result |-> r.result, error |-> r.error, pre |-> fs,
                    fault |-> NoFault]
        /\ written' = IF r.result = "Ok"
                      THEN [written EXCEPT ![Normalize(windows, output)] =
                              Some([host |-> fs[exe].data, source_code |-> source_code])]
                      ELSE written
  /\ pc' = "cli_done"
  /\ UNCHANGED <<envVars, tryVars, exitCode, stderr, runVars, failure, leafVars>>

\* the same call with an I/O operation failing
CliCompileFaulting(source_code, output, fault) ==
  /\ CommandLineEntered
  /\ LET r == CreateStandaloneBinaryFaulting(fs, windows, exe, source_code, output, fault)
     IN /\ fs' = r.fs
        /\ call' = [output |-> output, target |-> Normalize(windows, output),
                    source_code |-> source_code, host |-> fs[exe].data,
                    result |-> r.result, error |-> r.error, pre |-> fs,
                    fault |-> fault]
        /\ written' = IF r.result = "Ok"
                      THEN [written EXCEPT ![Normalize(windows, output)] =
                              Some([host |-> fs[exe].data, source_code |-> source_code])]
                      ELSE written
  /\ pc' = "cli_done"
  /\ UNCHANGED <<envVars, tryVars, exitCode, stderr, runVars, failure, leafVars>>

Next ==
  \/ \E p \in Paths : Start(p)
  \/ Detect
  \/ Extract
  \/ Configure
  \/ Bootstrap
  \/ ExecuteModule
  \/ DispatchLoadEvent
  \/ RunEventLoopTask
  \/ RunEventLoopDone
  \/ DispatchUnloadEvent
  \/ ExitOk
  \/ \E source_code \in Payloads, output \in Outputs : CliCompile(source_code, output)

Spec == Init /\ [][Next]_vars

\* one process that detects and compiles, the I/O operations of
\* create_standalone_binary failing at will
StartOnce(p) == pc = "idle" /\ Start(p)

NextFaults ==
  \/ \E p \in Paths : StartOnce(p)
  \/ Detect
  \/ \E source_code \in Payloads, output \in Outputs, fault \in Faults \cup {NoFault} :
       CliCompileFaulting(source_code, output, fault)

SpecFaults == Init /\ [][NextFaults]_vars

(***************************************************************************)
(* The trailer on its own: an offset is encoded as create_standalone_binary*)
(* encodes it, a 16-byte buffer is decoded as try_run_standalone_binary    *)
(* decodes it.                                                             *)
(***************************************************************************)
OffsetDigits == {0, 1, 255}
OffsetSamples == [U64Digits -> OffsetDigits]
MagicSamples == {MAGIC_TRAILER, NearMagic, Reverse(MAGIC_TRAILER),
                 [i \in 1..MagicLen |-> 0],
                 [i \in 1..MagicLen |-> IF i = 1 THEN 68 ELSE MAGIC_TRAILER[i]]}

NoMachine ==
  /\ windows = FALSE
  /\ overflowChecks = FALSE
  /\ fs = [p \in Paths |-> Absent]
  /\ NoProcess

CodecInit ==
  /\ NoMachine
  /\ loader = <<>>
  /\ lcall = NoLoaderCall
  /\ \E o \in OffsetSamples :
       \/ codec = [op |-> "offset", from |-> "offset", offset |-> o,
                   buf |-> <<>>, decoded |-> None]
       \/ \E m \in MagicSamples :
            codec = [op |-> "buffer", from |-> "buffer", offset |-> o,
                     buf |-> m \o ToBeBytes(o), decoded |-> None]

mainVars == <<windows, overflowChecks, fs, pc, exe, image, reads, trailer_pos,
              trailer, bundle_pos, bundle, ret, exitCode, stderr, evaluated,
              pending, events, failure, call, written>>

CodecEncode ==
  /\ codec.op = "offset"
  /\ codec' = [codec EXCEPT !.op = "encoded", !.buf = EncodeTrailer(codec.offset)]
  /\ UNCHANGED <<mainVars, loader, lcall>>

CodecDecode ==
  /\ codec.op \in {"encoded", "buffer"}
  /\ codec' = [codec EXCEPT !.op = "decoded", !.decoded = DecodeTrailer(codec.buf)]
  /\ UNCHANGED <<mainVars, loader, lcall>>

CodecNext == CodecEncode \/ CodecDecode

SpecCodec == CodecInit /\ [][CodecNext]_vars

(***************************************************************************)
(* The loader on its own: it holds a source, and the engine calls resolve  *)
(* and load with what a script may name.                                   *)
(***************************************************************************)
Sources == {p \in Payloads : IsUtf8(p)}
MaybeReferrers == {None} \cup {Some(m) : m \in ModuleSpecifiers}

LoaderInit ==
  /\ NoMachine
  /\ loader \in Sources
  /\ lcall = [op |-> "none", held |-> loader]
  /\ codec = NoCodec

LoaderResolve(specifier, referrer, is_main) ==
  /\ lcall' = [op |-> "resolve", held |-> lcall.held, specifier |-> specifier,
               referrer |-> referrer, flag |-> is_main,
               result |-> Resolve(loader, specifier, referrer, is_main)]
  /\ UNCHANGED <<mainVars, loader, codec>>

LoaderLoad(module_specifier, maybe_referrer, is_dynamic) ==
  /\ lcall' = [op |-> "load", held |-> lcall.held, specifier |-> module_specifier,
               referrer |-> maybe_referrer, flag |-> is_dynamic,
               result |-> Load(loader, module_specifier, maybe_referrer, is_dynamic)]
  /\ UNCHANGED <<mainVars, loader, codec>>

LoaderNext ==
  \/ \E specifier \in Specifiers, referrer \in Referrers, is_main \in BOOLEAN :
       LoaderResolve(specifier, referrer, is_main)
  \/ \E module_specifier \in ModuleSpecifiers, maybe_referrer \in MaybeReferrers,
        is_dynamic \in BOOLEAN :
       LoaderLoad(module_specifier, maybe_referrer, is_dynamic)

SpecLoader == LoaderInit /\ [][LoaderNext]_vars

(***************************************************************************)
(* Properties.  What they say of bytes is written out here byte by byte,   *)
(* not with the operators above that build and read images.                *)
(***************************************************************************)
Running == exe \in Paths
ExeData == fs[exe].data
ExtractionOver == Running /\ pc \notin {"idle", "detect", "extract"}
InRun == pc \in {"configure", "bootstrap", "execute", "load_event", "event_loop",
                 "unload_event", "exit_ok", "exited", "panicked"}

\* the eight bytes of an image that the magic occupies in an artifact, the
\* eight bytes after them, and the number those spell in big-endian
MagicBytesOf(d) == SubSeq(d, Len(d) - 15, Len(d) - 8)
Last8Of(d) == SubSeq(d, Len(d) - 7, Len(d))
SpellsBigEndian(b, n) ==
  /\ \A i \in 1..5 : b[i] = 0
  /\ b[6] * 65536 + b[7] * 256 + b[8] = n

\* the image host ++ payload ++ magic ++ big-endian length of host
IsImageOf(d, host, payload) ==
  /\ Len(d) = Len(host) + Len(payload) + 16
  /\ SubSeq(d, 1, Len(host)) = host
  /\ SubSeq(d, Len(host) + 1, Len(host) + Len(payload)) = payload
  /\ MagicBytesOf(d) = <<100, 51, 110, 48, 108, 52, 110, 100>>
  /\ SpellsBigEndian(Last8Of(d), Len(host))

Called == call.result # "none"
TargetBefore == call.pre[call.target]
OthersUntouched == \A p \in Paths \ {call.target} : fs[p] = call.pre[p]

\* run() was called with exactly this source as the bundle and, once it has
\* configured the engine, the loader holds it and the engine evaluates it
HandedToEngine(src) ==
  /\ InRun
  /\ ret = "none"
  /\ bundle = src
  /\ (pc # "configure" /\ failure.at # "Configure") => loader = src
  /\ evaluated.some => evaluated.value.code = src

(* C1 (as amended): for every host image of at least 16 bytes and every    *)
(* payload that is valid UTF-8, when the image create_standalone_binary    *)
(* wrote for them is the running executable, detection and extraction hand *)
(* exactly the payload to the engine as the bundle.                        *)
C1_RoundTripValidUtf8 ==
  (/\ ExtractionOver
   /\ written[exe].some
   /\ Len(written[exe].value.host) >= 16
   /\ IsUtf8(written[exe].value.source_code))
  => HandedToEngine(written[exe].value.source_code)

\* C1 as stated: the same for every payload byte sequence.
C1_RoundTripAnyBytes ==
  (/\ ExtractionOver
   /\ written[exe].some
   /\ Len(written[exe].value.host) >= 16)
  => HandedToEngine(written[exe].value.source_code)

\* a composed image with a two-byte character as payload ran up to the load event
C1_Witness ==
  /\ pc = "load_event"
  /\ written[exe].some
  /\ written[exe].value.source_code = <<195, 169>>
  /\ Len(written[exe].value.host) > 16
  /\ evaluated.some /\ evaluated.value.code = <<195, 169>>

(* C2: when create_standalone_binary is called and its output path (the    *)
(* path of lines 177-194, after ".exe" was appended on Windows) is a       *)
(* regular file whose trailing magic does not match, the call returns the  *)
(* "cannot overwrite" error and the file, like every other, is unchanged.  *)
C2_OverwriteRefusal ==
  (/\ Called
   /\ TargetBefore.kind = "file"
   /\ Len(TargetBefore.data) >= 16
   /\ MagicBytesOf(TargetBefore.data) # <<100, 51, 110, 48, 108, 52, 110, 100>>)
  => /\ call.result = "Err"
     /\ call.error = "cannot_overwrite"
     /\ fs[call.target] = TargetBefore
     /\ fs = call.pre

\* a payload was refused over a file that differs from the magic in one letter
C2_Witness ==
  /\ Called
  /\ call.error = "cannot_overwrite"
  /\ call.target # exe
  /\ TargetBefore.kind = "file"
  /\ MagicBytesOf(TargetBefore.data) = <<100, 51, 110, 48, 108, 52, 110, 68>>
  /\ fs[call.target].data = TargetBefore.data

(* C3 (as amended): for every running image of at least 16 bytes whose     *)
(* bytes [len-16, len-8) differ from the magic, try_run_standalone_binary  *)
(* returns Ok: no error, no exit, no engine run.                           *)
NotStandaloneOutcome ==
  /\ ret = "Ok"
  /\ pc \in {"returned", "cli_done"}
  /\ failure = NoFailure
  /\ events = <<>>
  /\ exitCode = -1
  /\ stderr = <<>>

C3_NonArtifactDetection ==
  (/\ Running
   /\ pc \notin {"idle", "detect"}
   /\ Len(ExeData) >= 16
   /\ MagicBytesOf(ExeData) # <<100, 51, 110, 48, 108, 52, 110, 100>>)
  => NotStandaloneOutcome

\* C3 as stated: the same for every image whose last 8 bytes differ from the magic.
C3_Last8Detection ==
  (/\ Running
   /\ pc \notin {"idle", "detect"}
   /\ Len(ExeData) >= 16
   /\ Last8Of(ExeData) # <<100, 51, 110, 48, 108, 52, 110, 100>>)
  => NotStandaloneOutcome

\* an image that differs from an artifact in one letter of the magic was run
C3_Witness ==
  /\ Running
  /\ pc = "returned"
  /\ ret = "Ok"
  /\ MagicBytesOf(ExeData) = <<100, 51, 110, 48, 108, 52, 110, 68>>

(* C4 (as amended): in a standalone run (the magic matched), an error of   *)
(* run() - Configure, ExecuteModule, DispatchLoadEvent, RunEventLoop or    *)
(* DispatchUnloadEvent - is printed as `error: <message>` and the process  *)
(* exits with code 1; an error of Extract (the seek, invalid UTF-8) is     *)
(* returned as Err to the caller of try_run_standalone_binary, nothing     *)
(* printed and no exit; no failure, a panic included, ends in exit code 0. *)
MagicMatched == Len(trailer) = 16 /\ SubSeq(trailer, 1, 8) = <<100, 51, 110, 48, 108, 52, 110, 100>>
PrintedAndExitedOne ==
  /\ pc = "exited"
  /\ exitCode = 1
  /\ Len(stderr) = 2 /\ stderr[1] = "error"
  /\ ret = "none"

C5_ImageLayout ==
  (Called /\ call.result = "Ok")
  => IsImageOf(fs[call.target].data, call.host, call.source_code)

C5_Witness ==
  /\ Called
  /\ call.result = "Ok"
  /\ Len(call.source_code) = 2
  /\ Len(call.host) = 17
  /\ Len(fs[call.target].data) = 35
  /\ fs[call.target].data[35] = 17

(* C9: when create_standalone_binary is called and its output path (as in  *)
(* C2) is a regular file that ends in a trailer with the magic, the call   *)
(* succeeds and the file then holds exactly the new image, nothing of the  *)
(* old contents.                                                           *)
C9_OverwriteSuccess ==
  (/\ Called
   /\ TargetBefore.kind = "file"
   /\ Len(TargetBefore.data) >= 16
   /\ MagicBytesOf(TargetBefore.data) = <<100, 51, 110, 48, 108, 52, 110, 100>>)
  => /\ call.result = "Ok"
     /\ fs[call.target].kind = "file"
     /\ IsImageOf(fs[call.target].data, call.host, call.source_code)
     /\ OthersUntouched

\* a longer artifact was replaced by a shorter image
C9_Witness ==
  /\ Called
  /\ call.result = "Ok"
  /\ TargetBefore.kind = "file"
  /\ Len(TargetBefore.data) > Len(fs[call.target].data)
  /\ fs[call.target].data # TargetBefore.data

(* C10: when create_standalone_binary is called and its output path (as in *)
(* C2) is a directory, the call returns the "is a directory" error and     *)
(* nothing in the file system has changed.                                 *)
C10_DirectoryRefusal ==
  (Called /\ TargetBefore.kind = "dir")
  => /\ call.result = "Err"
     /\ call.error = "is_directory"
     /\ fs = call.pre

C10_Witness ==
  /\ Called
  /\ TargetBefore.kind = "dir"
  /\ call.error = "is_directory"
  /\ fs[call.target].kind = "dir"

C7_Resolve ==
  lcall.op = "resolve" =>
    /\ lcall.result.ok <=> lcall.specifier = "file://$deno$/bundle.js"
    /\ lcall.result.ok => lcall.result.value.url = lcall.specifier
    /\ ~lcall.result.ok => lcall.result.error = "module_loading_unsupported"
    /\ \A r \in Referrers, m \in BOOLEAN :
         Resolve(loader, lcall.specifier, r, m) = lcall.result

\* a specifier that parses to the synthetic URL, but is not its text, was
\* refused for a main module whose referrer is "."
C7_Witness ==
  /\ lcall.op = "resolve"
  /\ lcall.specifier = "FILE://$deno$/bundle.js"
  /\ lcall.referrer = "."
  /\ lcall.flag
  /\ ~lcall.result.ok

(* C8: load of the synthetic specifier returns the held source byte for    *)
(* byte, with "specified" and "found" both the synthetic specifier,        *)
(* whatever the referrer and is_dynamic; load of any other specifier fails *)
(* with the module-loading-unsupported error and returns no source; the    *)
(* held source is the one the loader was built with after every call.      *)
C8_Load ==
  /\ lcall.op # "none" => loader = lcall.held
  /\ lcall.op = "load" =>
       IF lcall.specifier.url = "file://$deno$/bundle.js"
       THEN /\ lcall.result.ok
            /\ lcall.result.value.code = lcall.held
            /\ lcall.result.value.module_url_specified = "file://$deno$/bundle.js"
            /\ lcall.result.value.module_url_found = "file://$deno$/bundle.js"
       ELSE /\ ~lcall.result.ok
            /\ lcall.result.error = "module_loading_unsupported"
            /\ DOMAIN lcall.result = {"ok", "error"}

\* a dynamic load of the synthetic specifier returned a two-byte character
C8_Witness ==
  /\ lcall.op = "load"
  /\ lcall.flag
  /\ lcall.referrer.some
  /\ lcall.result.ok
  /\ lcall.result.value.code = <<195, 169>>

\* a load of a foreign URL was refused
C8_WitnessRefused ==
  /\ lcall.op = "load"
  /\ lcall.specifier.url = "https://example.com/"
  /\ ~lcall.result.ok

(* C11 (as amended): a call of create_standalone_binary that returns an    *)
(* error for a directory target, for a refused overwrite or for an I/O     *)
(* failure in reading the running executable or in checking the existing   *)
(* target leaves the whole file system as it was; the file system differs  *)
(* after an error return only when the write or the setting of permissions *)
(* failed, and then the directory and magic checks had passed: the target  *)
(* was absent or a file with the magic, and no other path changed.         *)
ChecksPassed ==
  \/ TargetBefore.kind = "absent"
  \/ /\ TargetBefore.kind = "file"
     /\ Len(TargetBefore.data) >= 16
     /\ MagicBytesOf(TargetBefore.data) = <<100, 51, 110, 48, 108, 52, 110, 100>>

C11_ErrorsBeforeWrite ==
  (Called /\ call.result = "Err")
  => /\ call.error \in {"is_directory", "cannot_overwrite"} => fs = call.pre
     /\ call.fault.at \notin {"write", "set_permissions"} => fs = call.pre
     /\ fs # call.pre => /\ call.error = "io"
                        /\ ChecksPassed
                        /\ OthersUntouched

\* C11 as stated: after every error return the output path holds what it held.
C11_NoPartialCommit ==
  (Called /\ call.result = "Err") => fs[call.target] = TargetBefore

C11_Witness ==
  /\ Called
  /\ call.result = "Err"
  /\ call.fault.at = "read"
  /\ ChecksPassed
  /\ TargetBefore.kind = "file"
  /\ fs = call.pre

(* C12: when the 16 bytes at the end of the running executable do not      *)
(* start with the magic, try_run_standalone_binary returns Ok to its        *)
(* caller: the process has not exited, nothing of the engine was set up or  *)
(* run, the only read of the executable was that of its last 16 bytes (the  *)
(* bytes before them were never read), and the executable's file holds the  *)
(* bytes it held when the process started.                                  *)
TrailerMismatch ==
  /\ Running
  /\ pc \notin {"idle", "detect"}
  /\ Len(trailer) = 16
  /\ SubSeq(trailer, 1, 8) # <<100, 51, 110, 48, 108, 52, 110, 100>>

C12_NotStandalone ==
  TrailerMismatch
  => /\ ret = "Ok"
     /\ pc \in {"returned", "cli_done"}
     /\ exitCode = -1
     /\ stderr = <<>>
     /\ events = <<>> /\ loader = <<>> /\ evaluated = None /\ pending = 0
     /\ bundle = <<>>
     /\ reads = <<[from |-> U64OfNat(Len(image) - 16), count |-> 16]>>
     /\ pc = "returned" => fs[exe].data = image

C12_Witness ==
  /\ TrailerMismatch
  /\ pc = "returned"
  /\ ret = "Ok"
  /\ Len(image) = 33
  /\ MagicBytesOf(image) = <<100, 51, 110, 48, 108, 52, 110, 68>>
  /\ Len(reads) = 1

(* C13: the steps of a standalone run are taken in the order Configure,    *)
(* Bootstrap, ExecuteModule, DispatchLoadEvent, RunEventLoop,               *)
(* DispatchUnloadEvent, each at most once and only after the bundle was     *)
(* extracted; a process that exits with code 0 has taken them all, none     *)
(* failed, and the event loop was drained; the load event is dispatched     *)
(* only after the main module was evaluated without failure; the unload     *)
(* event is dispatched only after the load event and a drained event loop,  *)
(* and never after an earlier step failed.                                  *)
RunSteps == <<"Configure", "Bootstrap", "ExecuteModule", "DispatchLoadEvent",
              "RunEventLoop", "DispatchUnloadEvent">>
Dispatched(name) == \E i \in 1..Len(events) : events[i] = name
Extracted ==
  /\ MagicMatched
  /\ Len(reads) = 2
  /\ reads[2].from = bundle_pos
  /\ failure.at # "Extract"

C13_SuccessOrdering ==
  /\ Len(events) <= 6
  /\ events = SubSeq(RunSteps, 1, Len(events))
  /\ events # <<>> => Extracted
  /\ exitCode = 0 => /\ pc = "exited"
                     /\ events = RunSteps
                     /\ failure = NoFailure
                     /\ evaluated.some
                     /\ pending = 0
  /\ Dispatched("DispatchLoadEvent")
       => /\ evaluated.some
          /\ failure.at \notin {"Configure", "Bootstrap", "ExecuteModule"}
  /\ (Dispatched("RunEventLoop") /\ failure.at # "RunEventLoop") => pending = 0
  /\ Dispatched("DispatchUnloadEvent")
       => /\ Dispatched("DispatchLoadEvent")
          /\ Dispatched("RunEventLoop")
          /\ pending = 0
          /\ failure.at \in {"none", "DispatchUnloadEvent"}

C13_Witness ==
  /\ pc = "exited"
  /\ exitCode = 0
  /\ events = RunSteps
  /\ Len(bundle) = 1
  /\ evaluated.some

(* C14 (as amended): every image written by a successful call of           *)
(* create_standalone_binary stores in its trailer the offset               *)
(* file_length - 16 - payload_length, so offset <= file_length - 16, with  *)
(* equality exactly when the payload is empty.                             *)
StoredOffset(d) == Last8Of(d)[6] * 65536 + Last8Of(d)[7] * 256 + Last8Of(d)[8]
Composed == Called /\ call.result = "Ok"
ComposedImage == fs[call.target].data

C14_OffsetAtMostPayloadStart ==
  Composed
  => /\ \A i \in 1..5 : Last8Of(ComposedImage)[i] = 0
     /\ StoredOffset(ComposedImage)
          = Len(ComposedImage) - 16 - Len(call.source_code)
     /\ StoredOffset(ComposedImage) <= Len(ComposedImage) - 16
     /\ (StoredOffset(ComposedImage) = Len(ComposedImage) - 16)
          <=> (call.source_code = <<>>)

\* C14 as stated: the offset is strictly below file_length - 16.
C14_OffsetBelowTrailer ==
  Composed => StoredOffset(ComposedImage) < Len(ComposedImage) - 16

C14_Witness ==
  /\ Composed
  /\ call.source_code = <<>>
  /\ Len(ComposedImage) = 33
  /\ StoredOffset(ComposedImage) = 17

(* C15: when the running executable is shorter than 16 bytes,              *)
(* try_run_standalone_binary returns an error to its caller: it does not   *)
(* return Ok, it reads no trailer and no bundle, and nothing of the engine *)
(* is set up or run.                                                       *)
ShortExecutable ==
  /\ Running
  /\ pc \notin {"idle", "detect"}
  /\ Len(image) < 16

PayloadReadInBounds ==
  (Len(reads) = 2 /\ reads[2].count > 0)
  => /\ reads[2].from = bundle_pos
     /\ U64IsSmall(bundle_pos)
     /\ U64ToNat(bundle_pos) + reads[2].count <= Len(image) - 16

C17_ExtractionInBounds ==
  (Running /\ MagicMatched /\ pc \notin {"idle", "detect", "extract"})
  => /\ failure # [at |-> "Extract", kind |-> "panic"]
     /\ Len(reads) = 2 => ~U64Lt(trailer_pos, bundle_pos)
     /\ PayloadReadInBounds

(* C18: when create_standalone_binary is called and its output path (as in *)
(* C2) is a regular file shorter than 16 bytes, the empty file included,   *)
(* the call returns an I/O error and nothing in the file system has        *)
(* changed: the file is not overwritten.                                   *)
C18_ShortTargetRefused ==
  (/\ Called
   /\ TargetBefore.kind = "file"
   /\ Len(TargetBefore.data) < 16)
  => /\ call.result = "Err"
     /\ call.error = "io"
     /\ fs[call.target] = TargetBefore
     /\ fs = call.pre

C18_Witness ==
  /\ Called
  /\ TargetBefore.kind = "file"
  /\ TargetBefore.data = <<>>
  /\ call.result = "Err"
  /\ fs[call.target].kind = "file"
  /\ fs[call.target].data = <<>>

====
